---- MODULE Spec2Model ----
(***************************************************************************)
(* Model of the lambda-api test scripts of stefanasandei/unicorn:          *)
(*   tests/stress.py  run_in_parallel / execute_request / payload          *)
(*   tests/ruok.py    send_req / payload                                   *)
(*   runtimes/build_env.py  generate_nix_file                              *)
(* Time is counted in thousandths of a second: `now` is time.time(), a     *)
(* duration is a difference of two readings.  A number printed with :.2f   *)
(* is kept as the count of hundredths of a second it shows.                *)
(* Python strings are sequences of one-character strings.                  *)
(* Each step of a thread that reads or writes something another thread     *)
(* can see (the clock, the work queue, the endpoint, the output, a         *)
(* future, the executor's idle count) is an action of its own; print is    *)
(* two writes to the output, the text and then the newline.                *)
(***************************************************************************)
EXTENDS Integers, Sequences, FiniteSets, TLC

\* ---- bounds of the model ------------------------------------------------
MaxNum == 2
MaxThreads == 2
MaxTime == 1
MaxTemplateLen == 3
MaxFiles == 2
\* the runs that follow the thread pool alone
MaxPoolNum == 3
MaxPoolThreads == 2

\* the thousandths of a second the clock moves forward in one step
Quantum == 125

\* ---- values --------------------------------------------------------------
\* Python's None
None == -1
\* a key that the decoded JSON object does not have
NoField == "<absent>"

Digit(d) == CASE d = 0 -> "0" [] d = 1 -> "1" [] d = 2 -> "2" [] d = 3 -> "3"
              [] d = 4 -> "4" [] d = 5 -> "5" [] d = 6 -> "6" [] d = 7 -> "7"
              [] d = 8 -> "8" [] d = 9 -> "9"

RECURSIVE Str(_)
\* str(msg) for a non-negative int: its decimal digits
Str(n) == IF n < 10 THEN <<Digit(n)>> ELSE Str(n \div 10) \o <<Digit(n % 10)>>

\* A float that holds a duration of t thousandths of a second lies a little
\* below that decimal value (-1), a little above it (1), or is the value
\* itself (0), which only a multiple of an eighth of a second can be.  The
\* side is told apart where it decides what :.2f shows, for a value half way
\* between two hundredths, and is 0 elsewhere.
Leans(t) == IF t % 10 # 5 THEN {0}
            ELSE IF t % 125 = 0 THEN {0 - 1, 0, 1} ELSE {0 - 1, 1}

\* f"{x:.2f}" for a float x holding n / d thousandths of a second (n >= 0,
\* d > 0) and lying on the side lean of it: the hundredths shown.  The
\* nearest hundredth is taken; half way between two, the side of the float
\* decides, and a float that is the value itself goes to the even hundredth.
Round2(n, d, lean) ==
    LET q == n \div (10 * d)
        r == n % (10 * d)
    IN IF 2 * r > 10 * d THEN q + 1
       ELSE IF 2 * r < 10 * d THEN q
       ELSE IF lean > 0 \/ (lean = 0 /\ q % 2 = 1) THEN q + 1 ELSE q

\* JSON values found at data['output']['run']['stdout']: a string, a number,
\* or nothing (the key path is absent)
JStr(s) == [t |-> "str", s |-> s, n |-> 0]
JInt(n) == [t |-> "int", s |-> <<>>, n |-> n]
JAbsent == [t |-> "absent", s |-> <<>>, n |-> 0]

\* f"{out}": the text an f-string shows for a JSON value
Fmt(out) == IF out.t = "int" THEN Str(out.n) ELSE out.s

\* Python `out != str(msg)`: a str equals only a str with the same characters
PyNeStr(out, s) == ~(out.t = "str" /\ out.s = s)

\* stress.py payload(msg): project.entry is the Go program printing msg, kept
\* as the call it makes and the text between the quotes
payload(msg) == [runtime |-> [name |-> "go", version |-> "3.12"],
                 entry |-> <<"fmt.Print(">> \o Str(msg) \o <<")">>,
                 process |-> [time |-> "2s", read |-> TRUE]]

\* ruok.py payload(msg): the same request with fmt.Println, msg a string
ruok_payload(msg) == [runtime |-> [name |-> "go", version |-> "3.12"],
                      entry |-> <<"fmt.Println(">> \o msg \o <<")">>,
                      process |-> [time |-> "2s", read |-> TRUE]]

\* ruok.py line 40: the message of send_req("it works")
RuokMsg == <<"i", "t", " ", "w", "o", "r", "k", "s">>

\* What requests.post + json.loads can give for request msg:
\*   kind "raise"   requests.post raised (connection refused, timeout, DNS)
\*   kind "garbage" a body json.loads cannot parse
\*   kind "json"    a decoded object with HTTP code, optional status, optional stdout
StdoutOf(msg) == {JAbsent, JStr(Str(msg)), JStr(Str(msg + 1)), JInt(msg)}
Responses(msg) ==
    {[kind |-> "raise", code |-> 0, status |-> NoField, stdout |-> JAbsent],
     [kind |-> "garbage", code |-> 200, status |-> NoField, stdout |-> JAbsent]}
    \cup [kind : {"json"}, code : {200, 500},
          status : {NoField, "successful", "failed"}, stdout : StdoutOf(msg)]
\* The answers the endpoint gives in a stress run: one of each way through
\* lines 31-47, and of each combination of HTTP code, status and stdout the
\* printed line tells apart or hides
Json(code, status, out) == [kind |-> "json", code |-> code, status |-> status, stdout |-> out]
Served(msg) ==
    {[kind |-> "raise", code |-> 0, status |-> NoField, stdout |-> JAbsent],
     [kind |-> "garbage", code |-> 200, status |-> NoField, stdout |-> JAbsent],
     Json(200, "successful", JStr(Str(msg))),
     Json(200, "successful", JStr(Str(msg + 1))),
     Json(200, "successful", JInt(msg)),
     Json(200, "failed", JAbsent),
     Json(200, "failed", JStr(Str(msg))),
     Json(500, "successful", JStr(Str(msg))),
     Json(200, NoField, JStr(Str(msg + 1)))}
\* before submit / before the call: no arguments, nothing posted
NoArgs == [request_num |-> 0, msg |-> 0]
NoPayload == [runtime |-> [name |-> "", version |-> ""], entry |-> <<>>,
              process |-> [time |-> "", read |-> FALSE]]
NoResp == [kind |-> "none", code |-> 0, status |-> NoField, stdout |-> JAbsent]

\* ---- build_env.py ----------------------------------------------------------
\* the characters templates are made of, and the templates tried
Alphabet == {"a", "%", "s"}
Templates == UNION {[1..n -> Alphabet] : n \in 0..MaxTemplateLen}

\* the files a runtime directory can hold: name ending in .yaml or not,
\* with or without the key nix_pkgs, and the package names listed
File(yaml, has, pkgs) == [yaml |-> yaml, has_nix_pkgs |-> has, nix_pkgs |-> pkgs]
FileKinds == {File(FALSE, TRUE, << <<"z">> >>),
              File(TRUE, FALSE, <<>>),
              File(TRUE, TRUE, << <<"p">> >>),
              File(TRUE, TRUE, << <<"p">>, <<"q", "r">> >>)}
Directories == UNION {[1..n -> FileKinds] : n \in 0..MaxFiles}

\* line 11: template_content.find('%s'), a 0-based position or -1
Find(t) ==
    LET hits == {k \in 1..(Len(t) - 1) : t[k] = "%" /\ t[k + 1] = "s"}
    IN IF hits = {} THEN 0 - 1
       ELSE (CHOOSE k \in hits : \A j \in hits : k <= j) - 1

\* a slice bound as Python reads it: negative counts from the end, and the
\* result is kept within 0..n
Bound(i, n) == IF i < 0 THEN (IF i + n < 0 THEN 0 ELSE i + n)
               ELSE (IF i > n THEN n ELSE i)
\* t[:p] and t[q:]
SliceTo(t, p) == SubSeq(t, 1, Bound(p, Len(t)))
SliceFrom(t, q) == SubSeq(t, Bound(q, Len(t)) + 1, Len(t))

RECURSIVE NixPkgsList(_)
\* lines 14-25: the names of the .yaml files' nix_pkgs, in listing order;
\* get('nix_pkgs', []) gives no names for a file without the key
NixPkgsList(dir) ==
    IF dir = <<>> THEN <<>>
    ELSE LET f == Head(dir) IN
         (IF f.yaml /\ f.has_nix_pkgs THEN f.nix_pkgs ELSE <<>>) \o NixPkgsList(Tail(dir))

\* line 28: the separator between two names, a newline and four spaces
Separator == <<"\n", " ", " ", " ", " ">>

RECURSIVE JoinStr(_, _)
\* sep.join(names)
JoinStr(sep, names) ==
    IF names = <<>> THEN <<>>
    ELSE IF Len(names) = 1 THEN names[1]
    ELSE names[1] \o sep \o JoinStr(sep, Tail(names))

\* lines 11, 28-29: new_content
NewContent(t, dir) ==
    LET placeholder_position == Find(t)
        nix_pkgs_str == JoinStr(Separator, NixPkgsList(dir))
    IN SliceTo(t, placeholder_position) \o nix_pkgs_str
         \o SliceFrom(t, placeholder_position + 2)

VARIABLES
    prog,           \* which script's __main__ runs: "stress", "ruok", "build_env"
    template,       \* build_env: the text of the template file
    runtime_dir,    \* build_env: the files of the runtime directory, as listed
    output,         \* build_env: the text written to the output file
    num, ts,        \* run_in_parallel(num, ts)
    mean_lean,      \* the side of the float sum(elapsed_times) / num of several
                    \* durations (see Leans): it follows from the floats added,
                    \* which are kept here to the thousandth, and is given
                    \* with them
    now,            \* time.time()
    start_time,     \* run_in_parallel's start_time
    main_pc,        \* main thread: "submit", "adjust", "thread", "append", "wait",
                    \* "shutdown", "collect", "done"; "send"; "generate"
    futures,        \* the list futures: the requests whose submit has returned
    completed,      \* the requests in the order their futures got a result
    queue,          \* the executor's work queue (FIFO)
    nthreads,       \* worker threads the executor has started
    idle,           \* the executor's _idle_semaphore
    args,           \* per request: the arguments (request_num, msg) of execute_request,
                    \* or the argument msg of send_req
    sent,           \* per request: the payload posted to the endpoint
    rpc,            \* per request: position of its execute_request call
    req_start,      \* per request: execute_request's start_time (0 outside its use)
    elapsed,        \* per request: execute_request's elapsed_time (None outside)
    lean,           \* per request: the side of the float elapsed_time (see Leans)
    resp,           \* per request: what the HTTP call gave
    result,         \* per request: the future's result (None until set)
    calls,          \* per request: number of requests.post calls made
    stdout,         \* what has been written to the output, in order: the texts of
                    \* the lines and the newlines
    elapsed_times,  \* run_in_parallel's elapsed_times list
    summary         \* the summaries printed (lines 65-66), none before

\* what the script is run with, the files build_env.py reads, and what the
\* clock's readings leave open below the thousandth of a second
config == <<prog, num, ts, template, runtime_dir, mean_lean>>

vars == <<config, output, now, start_time, main_pc, futures, completed, queue,
          nthreads, idle, args, sent, rpc, req_start, elapsed, lean, resp, result,
          calls, stdout, elapsed_times, summary>>

Reqs == 1..num

\* ---- pure helpers --------------------------------------------------------
RECURSIVE SumSeq(_)
SumSeq(s) == IF s = <<>> THEN 0 ELSE Head(s) + SumSeq(Tail(s))

\* max(elapsed_times) and min(elapsed_times), for the floats of s
\* thousandths lying on the sides l: the position of the greatest, the least
MaxSeq(s, l) == CHOOSE k \in DOMAIN s :
                  \A j \in DOMAIN s : s[j] < s[k] \/ (s[j] = s[k] /\ l[j] <= l[k])
MinSeq(s, l) == CHOOSE k \in DOMAIN s :
                  \A j \in DOMAIN s : s[k] < s[j] \/ (s[j] = s[k] /\ l[k] <= l[j])

\* line 61: the side of the float sum(elapsed_times) / len(elapsed_times):
\* the mean of one duration is that float itself, the mean of several lies
\* where the rounding errors of the float sum and quotient put it
MeanLean(n, leans, side) == IF n = 1 THEN leans[1] ELSE side

\* variant of Prefix: `out != msg`, the int itself
PrefixNoStr(out, msg) == IF ~(out.t = "int" /\ out.n = msg) THEN "[!] " ELSE ""

\* variant of Prefix: `str(out) != str(msg)`, both sides turned into text
PrefixCoerceBoth(out, msg) == IF Fmt(out) # Str(msg) THEN "[!] " ELSE ""

\* lines 36-38: the marker put before a result line
Prefix(out, msg) == IF PyNeStr(out, Str(msg)) THEN "[!] " ELSE ""

\* lines 40-41: the text printed for a decoded response after t thousandths
\* of a second (a float on the side l); the time is shown with two decimals
ResultLine(request_num, msg, r, t, l) ==
    [kind |-> "result", prefix |-> Prefix(r.stdout, msg), request_num |-> request_num,
     status |-> r.status, out |-> Fmt(r.stdout), expected |-> Str(msg),
     error |-> "", time |-> Round2(t, 1, l)]

\* line 46: the text printed by the exception handler, the time shown with
\* two decimals
ErrorLine(request_num, e, t, l) ==
    [kind |-> "error", prefix |-> "", request_num |-> request_num,
     status |-> NoField, out |-> <<>>, expected |-> <<>>,
     error |-> e, time |-> Round2(t, 1, l)]

\* the end="\n" that print writes after its text, in a write of its own
Newline ==
    [kind |-> "newline", prefix |-> "", request_num |-> 0,
     status |-> NoField, out |-> <<>>, expected |-> <<>>,
     error |-> "", time |-> 0]

\* str(e) of the exception lines 31-41 raise on response r (the KeyError's
\* key; the kind of a transport or decoding failure), "" when none is raised
Raised(r) ==
    CASE r.kind = "raise" -> "ConnectionError"
      [] r.kind = "garbage" -> "JSONDecodeError"
      [] r.kind = "json" /\ r.stdout.t = "absent" -> "'output'"
      [] r.kind = "json" /\ r.stdout.t # "absent" /\ r.status = NoField -> "'status'"
      [] OTHER -> ""

\* requests whose work item a worker thread holds: taken off the queue and
\* not yet followed by the worker's release of the idle semaphore
Busy == {i \in Reqs : rpc[i] \in {"taken", "started", "calling", "hung", "measured",
                                  "except", "handled", "wrote", "printed",
                                  "returned"}}

\* the requests put on the work queue so far
Submitted == {i \in Reqs : rpc[i] # "new"}

\* every future has its result
AllDone == \A i \in Reqs : rpc[i] \in {"returned", "released"}

\* ---- state after the script starts ---------------------------------------
\* the state when a script starts: which script, and for stress.py how many
\* requests on how many threads
Begin(progs, nums, threads, sides) ==
    /\ prog \in progs
    /\ num \in nums
    /\ ts \in threads
    /\ prog # "stress" => (num = 1 /\ ts = 1)
    /\ mean_lean \in (IF num > 1 THEN sides ELSE {0})
    /\ template \in Templates
    /\ runtime_dir \in Directories
    /\ prog # "build_env" => (template = <<>> /\ runtime_dir = <<>>)
    /\ output = <<>>
    /\ now = 0
    /\ start_time = 0
    /\ main_pc = CASE prog = "stress" -> "submit"
                    [] prog = "ruok" -> "send"
                    [] prog = "build_env" -> "generate"
    /\ futures = <<>>
    /\ completed = <<>>
    /\ queue = <<>>
    /\ nthreads = 0
    /\ idle = 0
    /\ args = [i \in 1..num |-> NoArgs]
    /\ sent = [i \in 1..num |-> NoPayload]
    /\ rpc = [i \in 1..num |-> "new"]
    /\ req_start = [i \in 1..num |-> 0]
    /\ elapsed = [i \in 1..num |-> None]
    /\ lean = [i \in 1..num |-> 0]
    /\ resp = [i \in 1..num |-> NoResp]
    /\ result = [i \in 1..num |-> None]
    /\ calls = [i \in 1..num |-> 0]
    /\ stdout = <<>>
    /\ elapsed_times = <<>>
    /\ summary = <<>>

\* one of the three scripts is run; stress.py with up to MaxNum requests on
\* up to MaxThreads threads
Init == Begin({"stress", "ruok", "build_env"}, 1..MaxNum, 1..MaxThreads, {0 - 1, 1})

\* time passes
Tick ==
    /\ main_pc # "done"
    /\ now < MaxTime * Quantum
    /\ now' = now + Quantum
    /\ UNCHANGED <<config, output, start_time, main_pc, futures, completed, queue,
                   nthreads, idle, args, sent, rpc, req_start, elapsed, lean, resp,
                   result, calls, stdout, elapsed_times, summary>>

\* line 53, executor.submit(execute_request, i, i) for the next i of
\* range(1, num + 1), first step: the work item is put on the queue
Submit ==
    /\ main_pc = "submit"
    /\ LET i == Len(futures) + 1 IN
         /\ args' = [args EXCEPT ![i] = [request_num |-> i, msg |-> i]]
         /\ queue' = Append(queue, i)
         /\ rpc' = [rpc EXCEPT ![i] = "queued"]
    /\ main_pc' = "adjust"
    /\ UNCHANGED <<config, output, now, start_time, futures, completed, nthreads,
                   idle, sent, req_start, elapsed, lean, resp, result, calls, stdout,
                   elapsed_times, summary>>

\* line 53, executor.submit, second step: the executor of line 52 adjusts its
\* threads (_adjust_thread_count), which begins with
\* `if self._idle_semaphore.acquire(timeout=0): return`.  When the idle
\* semaphore can be taken it is taken and no thread is started; otherwise
\* the call goes on to look at the number of threads.
Adjust ==
    /\ main_pc = "adjust"
    /\ IF idle > 0
       THEN idle' = idle - 1 /\ main_pc' = "append"
       ELSE idle' = idle /\ main_pc' = "thread"
    /\ UNCHANGED <<config, output, now, start_time, futures, completed, queue, nthreads,
                   args, sent, rpc, req_start, elapsed, lean, resp, result, calls,
                   stdout, elapsed_times, summary>>

\* variant of StartThread: a thread per submitted request, max_workers
\* ignored
StartThreadUnbounded ==
    /\ main_pc = "thread"
    /\ nthreads' = nthreads + 1
    /\ main_pc' = "append"
    /\ UNCHANGED <<config, output, now, start_time, futures, completed, queue, idle,
                   args, sent, rpc, req_start, elapsed, lean, resp, result, calls,
                   stdout, elapsed_times, summary>>

\* line 53, executor.submit, third step, after the idle semaphore could not
\* be taken: `if len(self._threads) < self._max_workers` a thread is started
\* (t.start()).  A worker's release of the semaphore can fall between the
\* second step and this one.  The started thread runs from here on, while
\* the main thread is still inside submit.
StartThread ==
    /\ main_pc = "thread"
    /\ nthreads' = (IF nthreads < ts THEN nthreads + 1 ELSE nthreads)
    /\ main_pc' = "append"
    /\ UNCHANGED <<config, output, now, start_time, futures, completed, queue, idle,
                   args, sent, rpc, req_start, elapsed, lean, resp, result, calls,
                   stdout, elapsed_times, summary>>

\* line 53, executor.submit, last step: the thread is added to the
\* executor's set, submit returns and the future joins the list futures
SubmitReturn ==
    /\ main_pc = "append"
    /\ futures' = Append(futures, Len(futures) + 1)
    /\ main_pc' = IF Len(futures) + 1 = num THEN "wait" ELSE "submit"
    /\ UNCHANGED <<config, output, now, start_time, completed, queue, nthreads, idle,
                   args, sent, rpc, req_start, elapsed, lean, resp, result, calls,
                   stdout, elapsed_times, summary>>

\* a worker thread waiting at work_queue.get takes the head of the queue
Take(i) ==
    /\ queue # <<>> /\ Head(queue) = i
    /\ Cardinality(Busy) < nthreads
    /\ queue' = Tail(queue)
    /\ rpc' = [rpc EXCEPT ![i] = "taken"]
    /\ UNCHANGED <<config, output, now, start_time, main_pc, futures, completed,
                   nthreads, idle, args, sent, req_start, elapsed, lean, resp,
                   result, calls, stdout, elapsed_times, summary>>

\* line 26: execute_request reads the clock
Start(i) ==
    /\ rpc[i] = "taken"
    /\ req_start' = [req_start EXCEPT ![i] = now]
    /\ rpc' = [rpc EXCEPT ![i] = "started"]
    /\ UNCHANGED <<config, output, now, start_time, main_pc, futures, completed,
                   queue, nthreads, idle, args, sent, elapsed, lean, resp, result,
                   calls, stdout, elapsed_times, summary>>

\* variant of Post: the call reads the loop variable of line 53 when it
\* runs (a closure over i) instead of the arguments given to submit
PostLateBinding(i) ==
    /\ rpc[i] = "started"
    /\ sent' = [sent EXCEPT ![i] = payload(Cardinality(Submitted))]
    /\ calls' = [calls EXCEPT ![i] = @ + 1]
    /\ rpc' = [rpc EXCEPT ![i] = "calling"]
    /\ UNCHANGED <<config, output, now, start_time, main_pc, futures, completed,
                   queue, nthreads, idle, args, req_start, elapsed, lean, resp,
                   result, stdout, elapsed_times, summary>>

\* lines 27-31: payload(msg) is built and requests.post is called with it
Post(i) ==
    /\ rpc[i] = "started"
    /\ sent' = [sent EXCEPT ![i] = payload(args[i].msg)]
    /\ calls' = [calls EXCEPT ![i] = @ + 1]
    /\ rpc' = [rpc EXCEPT ![i] = "calling"]
    /\ UNCHANGED <<config, output, now, start_time, main_pc, futures, completed,
                   queue, nthreads, idle, args, req_start, elapsed, lean, resp,
                   result, stdout, elapsed_times, summary>>

\* lines 31-41 up to the print: requests.post returns r or raises, json.loads
\* decodes it, line 34 reads the clock, lines 35-41 look up stdout and
\* status.  A failed call or an undecodable body raises before line 34, a
\* missing key after it; both lead to the handler, which measures again, so
\* the side of the float of line 34 is told apart only when it is printed.
Receive(i, r) ==
    /\ rpc[i] = "calling"
    /\ resp' = [resp EXCEPT ![i] = r]
    /\ IF r.kind # "json"
       THEN /\ rpc' = [rpc EXCEPT ![i] = "except"]
            /\ UNCHANGED <<elapsed, lean, req_start>>
       ELSE /\ elapsed' = [elapsed EXCEPT ![i] = now - req_start[i]]
            /\ IF Raised(r) # ""
               THEN rpc' = [rpc EXCEPT ![i] = "except"] /\ UNCHANGED <<lean, req_start>>
               ELSE /\ rpc' = [rpc EXCEPT ![i] = "measured"]
                    /\ \E l \in Leans(now - req_start[i]) : lean' = [lean EXCEPT ![i] = l]
                    /\ req_start' = [req_start EXCEPT ![i] = 0]
    /\ UNCHANGED <<config, output, now, start_time, main_pc, futures, completed,
                   queue, nthreads, idle, args, sent, result, calls, stdout,
                   elapsed_times, summary>>

\* variant of Except: the exception leaves execute_request, the worker's
\* future never gets a value
ExceptEscapes(i) ==
    /\ rpc[i] = "except"
    /\ rpc' = [rpc EXCEPT ![i] = "raised"]
    /\ req_start' = [req_start EXCEPT ![i] = 0]
    /\ elapsed' = [elapsed EXCEPT ![i] = None]
    /\ UNCHANGED <<config, output, now, start_time, main_pc, futures, completed,
                   queue, nthreads, idle, args, sent, lean, resp, result, calls,
                   stdout, elapsed_times, summary>>

\* variant of Except: the handler tries the call once more before giving up
ExceptRetry(i) ==
    /\ rpc[i] = "except"
    /\ IF calls[i] < 2
       THEN /\ calls' = [calls EXCEPT ![i] = @ + 1]
            /\ rpc' = [rpc EXCEPT ![i] = "calling"]
            /\ UNCHANGED <<elapsed, lean, req_start>>
       ELSE /\ elapsed' = [elapsed EXCEPT ![i] = now - req_start[i]]
            /\ \E l \in Leans(now - req_start[i]) : lean' = [lean EXCEPT ![i] = l]
            /\ req_start' = [req_start EXCEPT ![i] = 0]
            /\ rpc' = [rpc EXCEPT ![i] = "handled"]
            /\ UNCHANGED calls
    /\ UNCHANGED <<config, output, now, start_time, main_pc, futures, completed,
                   queue, nthreads, idle, args, sent, resp, result, stdout,
                   elapsed_times, summary>>

\* variant of Except: the handler calls the endpoint again, every time
ExceptRetryForever(i) ==
    /\ rpc[i] = "except"
    /\ rpc' = [rpc EXCEPT ![i] = "calling"]
    /\ UNCHANGED <<config, output, now, start_time, main_pc, futures, completed,
                   queue, nthreads, idle, args, sent, req_start, elapsed, lean, resp,
                   result, calls, stdout, elapsed_times, summary>>

\* lines 44-45: the handler of `except Exception` reads the clock
Except(i) ==
    /\ rpc[i] = "except"
    /\ elapsed' = [elapsed EXCEPT ![i] = now - req_start[i]]
    /\ \E l \in Leans(now - req_start[i]) : lean' = [lean EXCEPT ![i] = l]
    /\ req_start' = [req_start EXCEPT ![i] = 0]
    /\ rpc' = [rpc EXCEPT ![i] = "handled"]
    /\ UNCHANGED <<config, output, now, start_time, main_pc, futures, completed,
                   queue, nthreads, idle, args, sent, resp, result, calls, stdout,
                   elapsed_times, summary>>

\* lines 40-41 and 46, first write of print: the call writes the text of its
\* line, the result line after the try body or the error line in the handler
Report(i) ==
    /\ rpc[i] \in {"measured", "handled"}
    /\ stdout' = IF rpc[i] = "measured"
                 THEN Append(stdout, ResultLine(args[i].request_num, args[i].msg,
                                                resp[i], elapsed[i], lean[i]))
                 ELSE Append(stdout, ErrorLine(args[i].request_num, Raised(resp[i]),
                                               elapsed[i], lean[i]))
    /\ rpc' = [rpc EXCEPT ![i] = "wrote"]
    /\ UNCHANGED <<config, output, now, start_time, main_pc, futures, completed,
                   queue, nthreads, idle, args, sent, req_start, elapsed, lean, resp,
                   result, calls, elapsed_times, summary>>

\* lines 40-41 and 46, second write of print: the newline that ends the line
ReportEnd(i) ==
    /\ rpc[i] = "wrote"
    /\ stdout' = Append(stdout, Newline)
    /\ rpc' = [rpc EXCEPT ![i] = "printed"]
    /\ UNCHANGED <<config, output, now, start_time, main_pc, futures, completed,
                   queue, nthreads, idle, args, sent, req_start, elapsed, lean, resp,
                   result, calls, elapsed_times, summary>>

\* variant of Return: the handler ends without a return statement
ReturnNothingOnError(i) ==
    /\ rpc[i] = "printed"
    /\ result' = [result EXCEPT ![i] = IF Raised(resp[i]) = "" THEN elapsed[i] ELSE None]
    /\ elapsed' = [elapsed EXCEPT ![i] = None]
    /\ completed' = Append(completed, i)
    /\ rpc' = [rpc EXCEPT ![i] = "returned"]
    /\ UNCHANGED <<config, output, now, start_time, main_pc, futures, queue,
                   nthreads, idle, args, sent, req_start, lean, resp, calls, stdout,
                   elapsed_times, summary>>

\* variant of Return: a failed request reports the duration 0
ReturnZeroOnError(i) ==
    /\ rpc[i] = "printed"
    /\ result' = [result EXCEPT ![i] = IF Raised(resp[i]) = "" THEN elapsed[i] ELSE 0]
    /\ elapsed' = [elapsed EXCEPT ![i] = None]
    /\ completed' = Append(completed, i)
    /\ rpc' = [rpc EXCEPT ![i] = "returned"]
    /\ UNCHANGED <<config, output, now, start_time, main_pc, futures, queue,
                   nthreads, idle, args, sent, req_start, lean, resp, calls, stdout,
                   elapsed_times, summary>>

\* variant of Return: the handler is a `finally:` block, so it runs once more
\* after the try body has returned
ReturnThenFinally(i) ==
    /\ rpc[i] = "printed"
    /\ result' = [result EXCEPT ![i] = elapsed[i]]
    /\ IF Raised(resp[i]) = "" /\ Cardinality({k \in DOMAIN stdout : stdout[k].request_num = i}) = 1
       THEN rpc' = [rpc EXCEPT ![i] = "handled"] /\ UNCHANGED <<elapsed, completed>>
       ELSE /\ rpc' = [rpc EXCEPT ![i] = "returned"]
            /\ elapsed' = [elapsed EXCEPT ![i] = None]
            /\ completed' = Append(completed, i)
    /\ UNCHANGED <<config, output, now, start_time, main_pc, futures, queue,
                   nthreads, idle, args, sent, req_start, lean, resp, calls, stdout,
                   elapsed_times, summary>>

\* lines 43 and 47: execute_request returns elapsed_time and the worker sets
\* it as the result of the request's future
Return(i) ==
    /\ rpc[i] = "printed"
    /\ result' = [result EXCEPT ![i] = elapsed[i]]
    /\ elapsed' = [elapsed EXCEPT ![i] = None]
    /\ completed' = Append(completed, i)
    /\ rpc' = [rpc EXCEPT ![i] = "returned"]
    /\ UNCHANGED <<config, output, now, start_time, main_pc, futures, queue,
                   nthreads, idle, args, sent, req_start, lean, resp, calls, stdout,
                   elapsed_times, summary>>

\* variant of Release: the semaphore is released twice for a work item
ReleaseTwice(i) ==
    /\ rpc[i] = "returned"
    /\ idle' = idle + 2
    /\ rpc' = [rpc EXCEPT ![i] = "released"]
    /\ UNCHANGED <<config, output, now, start_time, main_pc, futures, completed,
                   queue, nthreads, args, sent, req_start, elapsed, lean, resp,
                   result, calls, stdout, elapsed_times, summary>>

\* the worker thread, done with the work item, releases the executor's idle
\* semaphore and goes back to work_queue.get
Release(i) ==
    /\ rpc[i] = "returned"
    /\ idle' = idle + 1
    /\ rpc' = [rpc EXCEPT ![i] = "released"]
    /\ UNCHANGED <<config, output, now, start_time, main_pc, futures, completed,
                   queue, nthreads, args, sent, req_start, elapsed, lean, resp,
                   result, calls, stdout, elapsed_times, summary>>

\* variant of Join: wait(futures, return_when=FIRST_COMPLETED)
JoinFirstCompleted ==
    /\ main_pc = "wait"
    /\ \E i \in Reqs : rpc[i] \in {"returned", "released"}
    /\ main_pc' = "shutdown"
    /\ UNCHANGED <<config, output, now, start_time, futures, completed, queue,
                   nthreads, idle, args, sent, rpc, req_start, elapsed, lean, resp,
                   result, calls, stdout, elapsed_times, summary>>

\* line 56: concurrent.futures.wait(futures) returns when every future has
\* its result
Join ==
    /\ main_pc = "wait"
    /\ AllDone
    /\ main_pc' = "shutdown"
    /\ UNCHANGED <<config, output, now, start_time, futures, completed, queue,
                   nthreads, idle, args, sent, rpc, req_start, elapsed, lean, resp,
                   result, calls, stdout, elapsed_times, summary>>

\* the end of the with block of line 52: executor.shutdown(wait=True) joins
\* the worker threads, which end once no work item is held or queued
Shutdown ==
    /\ main_pc = "shutdown"
    /\ queue = <<>> /\ Busy = {}
    /\ main_pc' = "collect"
    /\ UNCHANGED <<config, output, now, start_time, futures, completed, queue,
                   nthreads, idle, args, sent, rpc, req_start, elapsed, lean, resp,
                   result, calls, stdout, elapsed_times, summary>>

\* variant of Summarize: the sum is divided by the number of threads
SummarizeByThreads(n, threads, times, leans, side, total) ==
    {[num |-> n, ts |-> threads, total_elapsed_time |-> Round2(total, 1, l),
      mean_time |-> Round2(SumSeq(times), threads, MeanLean(threads, leans, side)),
      max_time |-> Round2(times[MaxSeq(times, leans)], 1, leans[MaxSeq(times, leans)]),
      min_time |-> Round2(times[MinSeq(times, leans)], 1, leans[MinSeq(times, leans)])]
       : l \in Leans(total)}

\* lines 59-66: the summary printed for the list of results times (floats
\* on the sides leans, their mean on the side `side` when they are several)
\* and the total time (a float on either side): the numbers as they are
\* shown, with two decimals
Summarize(n, threads, times, leans, side, total) ==
    {[num |-> n, ts |-> threads, total_elapsed_time |-> Round2(total, 1, l),
      mean_time |-> Round2(SumSeq(times), n, MeanLean(n, leans, side)),
      max_time |-> Round2(times[MaxSeq(times, leans)], 1, leans[MaxSeq(times, leans)]),
      min_time |-> Round2(times[MinSeq(times, leans)], 1, leans[MinSeq(times, leans)])]
       : l \in Leans(total)}

\* variant of Collect: the results are taken as the requests completed
\* (concurrent.futures.as_completed), not in the order of futures
CollectAsCompleted ==
    /\ main_pc = "collect"
    /\ LET times == [k \in 1..Len(futures) |-> result[completed[k]]]
           leans == [k \in 1..Len(futures) |-> lean[completed[k]]] IN
         /\ elapsed_times' = times
         /\ \E s \in Summarize(num, ts, times, leans, mean_lean, now - start_time) :
               summary' = Append(summary, s)
    /\ main_pc' = "done"
    /\ UNCHANGED <<config, output, now, start_time, futures, completed, queue,
                   nthreads, idle, args, sent, rpc, req_start, elapsed, lean, resp,
                   result, calls, stdout>>

\* lines 58-66: the results are collected in the order of futures, the clock
\* is read and the summary printed
Collect ==
    /\ main_pc = "collect"
    /\ LET times == [k \in 1..Len(futures) |-> result[futures[k]]]
           leans == [k \in 1..Len(futures) |-> lean[futures[k]]] IN
         /\ elapsed_times' = times
         /\ \E s \in Summarize(num, ts, times, leans, mean_lean, now - start_time) :
               summary' = Append(summary, s)
    /\ main_pc' = "done"
    /\ UNCHANGED <<config, output, now, start_time, futures, completed, queue,
                   nthreads, idle, args, sent, rpc, req_start, elapsed, lean, resp,
                   result, calls, stdout>>

\* ruok.py lines 27-36: the text send_req prints for response r
SendReqLine(r) ==
    IF r.kind # "json" THEN ErrorLine(0, Raised(r), 0, 0)
    ELSE IF r.code = 200 /\ r.status = "successful"
         THEN IF r.stdout.t = "absent" THEN ErrorLine(0, "'output'", 0, 0)
              ELSE [kind |-> "successful", prefix |-> "", request_num |-> 0,
                    status |-> r.status, out |-> Fmt(r.stdout), expected |-> <<>>,
                    error |-> "", time |-> 0]
         ELSE IF r.status = NoField THEN ErrorLine(0, "'status'", 0, 0)
              ELSE [kind |-> "failed", prefix |-> "", request_num |-> 0,
                    status |-> r.status, out |-> <<>>, expected |-> <<>>,
                    error |-> "", time |-> 0]

\* ruok.py send_req(msg), called with "it works": payload(msg) is posted
\* once and one line is printed for what comes back, text and newline (no
\* other thread writes).  send_req has no request number and reads no
\* clock; its one argument msg is the string RuokMsg.
SendReq(r) ==
    /\ main_pc = "send"
    /\ args' = [args EXCEPT ![1] = [msg |-> RuokMsg]]
    /\ sent' = [sent EXCEPT ![1] = ruok_payload(args'[1].msg)]
    /\ calls' = [calls EXCEPT ![1] = @ + 1]
    /\ resp' = [resp EXCEPT ![1] = r]
    /\ stdout' = stdout \o <<SendReqLine(r), Newline>>
    /\ main_pc' = "done"
    /\ UNCHANGED <<config, output, now, start_time, futures, completed, queue,
                   nthreads, idle, rpc, req_start, elapsed, lean, result,
                   elapsed_times, summary>>

\* build_env.py lines 5-33: generate_nix_file writes the output file
Generate ==
    /\ main_pc = "generate"
    /\ output' = NewContent(template, runtime_dir)
    /\ main_pc' = "done"
    /\ UNCHANGED <<config, now, start_time, futures, completed, queue, nthreads,
                   idle, args, sent, rpc, req_start, elapsed, lean, resp, result,
                   calls, stdout, elapsed_times, summary>>

Next ==
    \/ Tick
    \/ Submit
    \/ Adjust
    \/ StartThread
    \/ SubmitReturn
    \/ \E i \in Reqs : Take(i)
    \/ \E i \in Reqs : Start(i)
    \/ \E i \in Reqs : Post(i)
    \/ \E i \in Reqs : rpc[i] = "calling" /\ \E r \in Served(args[i].msg) : Receive(i, r)
    \/ \E i \in Reqs : Except(i)
    \/ \E i \in Reqs : Report(i)
    \/ \E i \in Reqs : ReportEnd(i)
    \/ \E i \in Reqs : Return(i)
    \/ \E i \in Reqs : Release(i)
    \/ Join
    \/ Shutdown
    \/ Collect
    \/ \E r \in Responses(1) : SendReq(r)
    \/ Generate

Spec == Init /\ [][Next]_vars

\* line 31 is called without a timeout: the endpoint may never answer, and
\* then requests.post never returns
Hang(i) ==
    /\ rpc[i] = "calling"
    /\ rpc' = [rpc EXCEPT ![i] = "hung"]
    /\ UNCHANGED <<config, output, now, start_time, main_pc, futures, completed,
                   queue, nthreads, idle, args, sent, req_start, elapsed, lean, resp,
                   result, calls, stdout, elapsed_times, summary>>

\* the run with an endpoint that may leave calls unanswered
NextHang ==
    \/ Next
    \/ \E i \in Reqs : Hang(i)

\* the steps of the main thread (lines 50-66)
Main == Submit \/ Adjust \/ StartThread \/ SubmitReturn \/ Join \/ Shutdown \/ Collect

\* the steps of the worker thread that runs execute_request(i, i)
Worker(i) ==
    /\ i \in Reqs
    /\ \/ Take(i)
       \/ Start(i)
       \/ Post(i)
       \/ rpc[i] = "calling" /\ \E r \in Served(args[i].msg) : Receive(i, r)
       \/ Except(i)
       \/ Report(i)
       \/ ReportEnd(i)
       \/ Return(i)
       \/ Release(i)

\* Threads that can run do run, and a call the endpoint does not leave
\* unanswered returns or raises.  Time is not required to pass.
FairSpec ==
    /\ Init /\ [][NextHang]_vars
    /\ WF_vars(Main)
    /\ \A i \in 1..MaxNum : WF_vars(Worker(i))

\* ---- the thread pool alone ----------------------------------------------
\* the answers that tell the two ways through execute_request apart: the
\* call raises, or the message is echoed
PoolServed(msg) ==
    {[kind |-> "raise", code |-> 0, status |-> NoField, stdout |-> JAbsent],
     Json(200, "successful", JStr(Str(msg)))}

\* stress.py is run with up to MaxPoolNum requests on up to MaxPoolThreads
\* threads; no float lies half way, as no time passes
PoolInit == Begin({"stress"}, 1..MaxPoolNum, 1..MaxPoolThreads, {1})

\* the steps of the worker thread that runs execute_request(i, i), the
\* endpoint answering in one of the two ways
PoolWorker(i) ==
    /\ i \in Reqs
    /\ \/ Take(i)
       \/ Start(i)
       \/ Post(i)
       \/ rpc[i] = "calling" /\ \E r \in PoolServed(args[i].msg) : Receive(i, r)
       \/ Except(i)
       \/ Report(i)
       \/ ReportEnd(i)
       \/ Return(i)
       \/ Release(i)

\* a stress run in which the clock stands still, the endpoint answers in one
\* of the two ways or leaves the call unanswered
PoolNext ==
    \/ Submit
    \/ Adjust
    \/ StartThread
    \/ SubmitReturn
    \/ \E i \in Reqs : Take(i)
    \/ \E i \in Reqs : Start(i)
    \/ \E i \in Reqs : Post(i)
    \/ \E i \in Reqs : rpc[i] = "calling" /\ \E r \in PoolServed(args[i].msg) : Receive(i, r)
    \/ \E i \in Reqs : Hang(i)
    \/ \E i \in Reqs : Except(i)
    \/ \E i \in Reqs : Report(i)
    \/ \E i \in Reqs : ReportEnd(i)
    \/ \E i \in Reqs : Return(i)
    \/ \E i \in Reqs : Release(i)
    \/ Join
    \/ Shutdown
    \/ Collect

PoolSpec == PoolInit /\ [][PoolNext]_vars

\* the same run with threads that can run running
FairPoolSpec ==
    /\ PoolInit /\ [][PoolNext]_vars
    /\ WF_vars(Main)
    /\ \A i \in 1..MaxPoolNum : WF_vars(PoolWorker(i))

\* ---- vocabulary of the properties ---------------------------------------
Stress == prog = "stress"
\* request i waits for a worker thread
Pending(i) == rpc[i] \in {"new", "queued"}
\* a worker thread runs execute_request for it
Dispatched(i) == rpc[i] \in {"taken", "started", "calling", "hung", "measured",
                             "except", "handled", "wrote", "printed"}
\* its future has its result
Completed(i) == rpc[i] \in {"returned", "released"}
\* its call of requests.post has not come back
InFlight(i) == rpc[i] \in {"calling", "hung"}
Finished == Stress /\ main_pc = "done"

\* positions in the output of the newlines, and of the texts of lines
Newlines == {k \in DOMAIN stdout : stdout[k].kind = "newline"}
Texts == DOMAIN stdout \ Newlines
\* positions in the output of the texts written for request i, and its text
LinesOf(i) == {k \in DOMAIN stdout : stdout[k].request_num = i}
LineOf(i) == stdout[CHOOSE k \in LinesOf(i) : TRUE]
\* the requests whose print has written its newline
Printed == {i \in Reqs : rpc[i] \in {"printed", "returned", "released"}}

Failed(i) == Raised(resp[i]) # ""
TransportFailed(i) == resp[i].kind = "raise"

RECURSIVE SumOver(_, _)
SumOver(f, S) == IF S = {} THEN 0
                 ELSE LET x == CHOOSE y \in S : TRUE IN f[x] + SumOver(f, S \ {x})

\* C1: when run_in_parallel ends there are exactly num outcomes, one for each
\* request index 1..num: the futures are those of 1..num in order, each got
\* its result once, a returned duration, elapsed_times has num entries, and
\* each index has printed its text once, with num newlines in all; at no
\* time has an index printed two texts, and a Completed request has its text
\* and its duration.
C1_ExactlyOneOutcomePerIndex ==
    Stress =>
      /\ \A i \in Reqs : Cardinality(LinesOf(i)) <= 1
      /\ \A i \in Reqs : Completed(i) => (Cardinality(LinesOf(i)) = 1 /\ result[i] # None)
      /\ \A i \in Reqs : LinesOf(i) # {} => (rpc[i] = "wrote" \/ i \in Printed)
      /\ \A k \in Texts : stdout[k].request_num \in Reqs
      /\ Cardinality(Newlines) = Cardinality(Printed)
      /\ \A i \in Reqs : Cardinality({k \in DOMAIN completed : completed[k] = i})
                             = IF Completed(i) THEN 1 ELSE 0
      /\ main_pc = "done" =>
           /\ futures = [k \in 1..num |-> k]
           /\ Len(elapsed_times) = num
           /\ Len(completed) = num
           /\ Cardinality(Texts) = num /\ Cardinality(Newlines) = num
           /\ \A i \in Reqs : result[i] # None /\ elapsed_times[i] = result[i]

\* a run with more threads allowed than requests has ended
C1_Witness == Finished /\ ts > num /\ Len(elapsed_times) = num

\* C2: the summary exists, and the main thread is past the join, only in
\* states where every request is Completed.
C2_SummaryOnlyAfterAllCompleted ==
    Stress =>
      /\ summary # <<>> => \A i \in Reqs : Completed(i) /\ result[i] # None
      /\ main_pc \in {"shutdown", "collect", "done"} => \A i \in Reqs : Completed(i)
      /\ (main_pc = "done") = (summary # <<>>)

\* the summary has been printed after two requests ran
C2_Witness == Finished /\ summary # <<>> /\ num >= 2

\* C3: at most ts requests are Dispatched (so at most ts HTTP calls are in
\* flight); with ts = 1 no two calls overlap.  No more than ts threads exist
\* and each holds at most one work item.
C3_AtMostTsDispatched ==
    Stress =>
      /\ Cardinality({i \in Reqs : Dispatched(i)}) <= ts
      /\ Cardinality({i \in Reqs : InFlight(i)}) <= ts
      /\ nthreads <= ts
      /\ Cardinality(Busy) <= nthreads

\* on two threads two calls are in flight while a third request waits in
\* the queue
C3_Witness ==
    /\ Stress /\ num > ts /\ ts >= 2 /\ nthreads = ts
    /\ Cardinality({i \in Reqs : InFlight(i)}) = ts
    /\ \E i \in Reqs : rpc[i] = "queued"

\* the steps of the run other than the passing of time
Progress ==
    \/ Main
    \/ \E i \in Reqs : Worker(i)

\* C4: no failed request aborts the run: until the summary is printed the run
\* can always take a further step, a failed request ends as an outcome (an
\* error line and a returned duration), and once the run has ended every
\* request has been attempted and the summary is printed, however many
\* failed.
C4_NoErrorAbortsTheRun ==
    Stress =>
      /\ main_pc # "done" => ENABLED Progress
      /\ \A i \in Reqs : rpc[i] \in {"new", "queued", "taken", "started", "calling",
                                     "measured", "except", "handled", "wrote",
                                     "printed", "returned", "released"}
      /\ \A i \in Reqs : (Completed(i) /\ Failed(i)) =>
            /\ result[i] # None
            /\ LinesOf(i) # {} /\ LineOf(i).kind = "error"
      /\ main_pc = "done" =>
            /\ summary # <<>>
            /\ \A i \in Reqs : calls[i] >= 1 /\ resp[i] # NoResp

\* the summary has been printed after every request failed, in different ways
C4_Witness ==
    /\ Finished /\ summary # <<>> /\ num >= 2
    /\ \A i \in Reqs : Failed(i)
    /\ \E i, j \in Reqs : resp[i].kind = "raise" /\ Raised(resp[j]) = "'output'"

\* a request whose returned float is the least, the greatest of all
MinResult == CHOOSE i \in Reqs : \A j \in Reqs :
               result[i] < result[j] \/ (result[i] = result[j] /\ lean[i] <= lean[j])
MaxResult == CHOOSE i \in Reqs : \A j \in Reqs :
               result[j] < result[i] \/ (result[i] = result[j] /\ lean[j] <= lean[i])

\* C5 (as stated): the mean reported is the sum of the num durations
\* divided by num, the min and max reported are the smallest and the largest
\* of them (the summary counts hundredths, the durations thousandths).
C5_Original ==
    Finished =>
      /\ 10 * num * summary[1].mean_time = SumOver(result, Reqs)
      /\ 10 * summary[1].min_time = result[MinResult]
      /\ 10 * summary[1].max_time = result[MaxResult]

\* C5 (amended): the mean, min and max reported are the mean, the smallest
\* and the largest of the num durations returned, each shown with two
\* decimals, so within half a hundredth of a second of the exact value; the
\* min and max shown are the least and the greatest of the times shown in
\* the requests' texts, the mean is that of the durations themselves, not of
\* the rounded times shown there.  The duration of a failed request,
\* measured in the handler and shown in its error text, counts like the
\* others.
C5_MeanMinMaxToTwoDecimals ==
    Finished =>
      /\ summary[1].mean_time
           = Round2(SumOver(result, Reqs), num, MeanLean(num, lean, mean_lean))
      /\ summary[1].min_time = Round2(result[MinResult], 1, lean[MinResult])
      /\ summary[1].max_time = Round2(result[MaxResult], 1, lean[MaxResult])
      /\ 10 * num * summary[1].mean_time - SumOver(result, Reqs) \in (0 - 5 * num)..(5 * num)
      /\ 10 * summary[1].min_time - result[MinResult] \in (0 - 5)..5
      /\ 10 * summary[1].max_time - result[MaxResult] \in (0 - 5)..5
      /\ \A i \in Reqs : /\ result[i] >= 0
                         /\ LineOf(i).time = Round2(result[i], 1, lean[i])
                         /\ summary[1].min_time <= LineOf(i).time
                         /\ LineOf(i).time <= summary[1].max_time
      /\ \E i, j \in Reqs : /\ summary[1].min_time = LineOf(i).time
                            /\ summary[1].max_time = LineOf(j).time

\* a failed request took longer than a successful one, both are counted, and
\* the mean shown is neither the exact mean nor the mean of the times shown
\* in the two texts
C5_Witness ==
    /\ Finished /\ num = 2
    /\ \E i, j \in Reqs : /\ Failed(i) /\ ~Failed(j)
                          /\ result[i] > result[j]
                          /\ summary[1].max_time = LineOf(i).time
                          /\ summary[1].min_time = LineOf(j).time
    /\ 10 * num * summary[1].mean_time # result[1] + result[2]
    /\ num * summary[1].mean_time # LineOf(1).time + LineOf(2).time

\* the decoded response of request i has the stdout field / the status field
HasStdout(i) == resp[i].kind = "json" /\ resp[i].stdout.t # "absent"
HasStatus(i) == resp[i].kind = "json" /\ resp[i].status # NoField
\* its stdout is not the expected message, the string str(i)
StdoutDiffers(i) == HasStdout(i) /\ resp[i].stdout # JStr(Str(i))
\* the text printed for request i carries the mismatch marker
Marked(i) == LinesOf(i) # {} /\ LineOf(i).prefix = "[!] "

\* C6 (as stated): a completed request whose response's stdout differs from
\* the expected message has its line printed with the marker, and one whose
\* stdout equals it is not marked.
C6_Original ==
    Stress => \A i \in Reqs : (Completed(i) /\ HasStdout(i)) => (Marked(i) = StdoutDiffers(i))

\* C6 (amended): a completed request whose decoded response has both the
\* status and the stdout field is printed as a result line, marked exactly
\* when its stdout is not the string str(i); every other completed request is
\* printed as an unmarked error line, whatever its stdout.
C6_MarkedIffDiffersWhenStatusPresent ==
    Stress => \A i \in Reqs : Completed(i) =>
      IF HasStdout(i) /\ HasStatus(i)
      THEN LineOf(i).kind = "result" /\ (Marked(i) = StdoutDiffers(i))
      ELSE LineOf(i).kind = "error" /\ ~Marked(i)

\* one request was marked for a differing stdout, another with a differing
\* stdout and no status field was printed unmarked
C6_Witness ==
    /\ Stress
    /\ \E i, j \in Reqs :
         /\ Completed(i) /\ HasStatus(i) /\ StdoutDiffers(i) /\ Marked(i)
         /\ Completed(j) /\ ~HasStatus(j) /\ StdoutDiffers(j) /\ ~Marked(j)

\* the line of request i reads like that of a successful request
ReportedSuccess(i) ==
    /\ LinesOf(i) # {}
    /\ LineOf(i).kind = "result" /\ LineOf(i).prefix = "" /\ LineOf(i).status = "successful"
\* the service did not answer request i with 200 and status "successful"
NotSuccessful(i) ==
    resp[i].kind = "json" /\ (resp[i].code # 200 \/ resp[i].status # "successful")

\* C7 (as stated): a response with a non-200 code or a status other than
\* "successful" is never reported as a success, by execute_request or by
\* send_req, and its line carries the status the service reported.
C7_Original ==
    /\ Stress => \A i \in Reqs : (Completed(i) /\ NotSuccessful(i)) =>
          /\ ~ReportedSuccess(i)
          /\ HasStatus(i) => LineOf(i).status = resp[i].status
    /\ (prog = "ruok" /\ main_pc = "done" /\ NotSuccessful(1)) =>
          /\ stdout[1].kind # "successful"
          /\ HasStatus(1) => stdout[1].status = resp[1].status

\* C8 (as stated): every request has an outcome and the summary carries a
\* count of transport errors equal to the number of requests whose call
\* failed at transport level.
C8_Original ==
    Finished =>
      /\ \A i \in Reqs : result[i] # None
      /\ "transport_errors" \in DOMAIN summary[1]
      /\ summary[1].transport_errors = Cardinality({i \in Reqs : TransportFailed(i)})

\* C9 (as stated): the summary carries a mismatch count, equal to the number
\* of requests whose stdout differed, 0 when every request was echoed.
C9_Original ==
    Finished =>
      /\ "mismatches" \in DOMAIN summary[1]
      /\ summary[1].mismatches = Cardinality({i \in Reqs : StdoutDiffers(i)})

\* C10: each request index causes at most one call of requests.post at any
\* time, exactly one from line 31 of its execute_request on, whatever the
\* call gave; none is made before.
C10_OneCallPerRequest ==
    Stress => \A i \in Reqs :
      /\ calls[i] <= 1
      /\ (Pending(i) \/ rpc[i] \in {"taken", "started"}) => calls[i] = 0
      /\ (InFlight(i) \/ rpc[i] \in {"measured", "except", "handled", "wrote", "printed"}
            \/ Completed(i)) => calls[i] = 1

\* the run ended after a call that raised and a call answered with garbage
C10_Witness ==
    /\ Finished
    /\ \E i, j \in Reqs : resp[i].kind = "raise" /\ resp[j].kind = "garbage"
    /\ \A i \in Reqs : calls[i] = 1

\* the requests a worker thread runs execute_request for (the slots in use)
Occupied == {i \in Reqs : Dispatched(i)}

\* C11 (as stated): request j is not Dispatched while a request i < j is
\* Pending, and a request is Pending only while ts requests are Dispatched.
C11_Original ==
    Stress =>
      /\ \A i, j \in Reqs : (i < j /\ Pending(i)) => ~Dispatched(j)
      /\ \A i \in Reqs : Pending(i) => Cardinality(Occupied) = ts

\* request i is Pending while fewer than ts requests are Dispatched
WaitsBesideFreeSlot(i) == Stress /\ i \in Reqs /\ Pending(i) /\ Cardinality(Occupied) < ts

\* C11 (amended): requests are given to worker threads in index order: no
\* request is Pending while a later one is not, the queue holds the Pending
\* submitted requests in index order and a thread takes the lowest of them.
\* A request is Pending while fewer than ts requests are Dispatched only
\* before it is put on the queue, or while the submit call of the latest
\* request has not yet taken the idle semaphore or started a thread, or
\* while a thread waiting at the queue can take its head, or while a thread
\* that has set a result has not yet gone back to the queue; and with threads
\* scheduled fairly such a state always leads to the request being taken or
\* to ts requests being Dispatched.
C11_IndexOrderAssignment ==
    /\ [](Stress =>
           /\ \A i, j \in Reqs : (i < j /\ Pending(i)) => Pending(j)
           /\ queue = [k \in 1..Len(queue) |-> Cardinality(Submitted) - Len(queue) + k]
           /\ \A i \in Reqs : rpc[i] = "queued" =>
                 \E k \in 1..Len(queue) : queue[k] = i
           /\ \A i \in Reqs : ENABLED Take(i) => \A j \in Reqs : Pending(j) => i <= j
           /\ \A i \in Reqs : WaitsBesideFreeSlot(i) =>
                 \/ rpc[i] = "new"
                 \/ main_pc \in {"adjust", "thread"}
                 \/ ENABLED Take(Head(queue))
                 \/ \E j \in Reqs : rpc[j] = "returned")
    /\ \A i \in 1..MaxPoolNum :
          WaitsBesideFreeSlot(i) ~> ~WaitsBesideFreeSlot(i)

\* on two threads request 1 is Completed and its thread is back at the
\* queue, request 2 is Dispatched, and request 3 waits in the queue beside
\* the free thread, which can take it
C11_Witness ==
    /\ Stress /\ ts = 2 /\ num = 3 /\ nthreads = 2
    /\ rpc[1] = "released" /\ Dispatched(2) /\ rpc[3] = "queued"
    /\ queue = <<3>> /\ ENABLED Take(3)

\* C12: under every interleaving request i is submitted with the arguments
\* (i, i), posts the program printing i, and its response is compared with
\* str(i), the expected value of its own index and of no other request.
C12_RequestCarriesItsOwnMessage ==
    Stress =>
      /\ \A i \in Reqs : rpc[i] # "new" => args[i] = [request_num |-> i, msg |-> i]
      /\ \A i \in Reqs : IF calls[i] = 0 THEN sent[i] = NoPayload
                          ELSE sent[i].entry = <<"fmt.Print(">> \o Str(i) \o <<")">>
      /\ \A k \in DOMAIN stdout : stdout[k].kind = "result" =>
            LET i == stdout[k].request_num IN
              /\ stdout[k].expected = Str(i)
              /\ stdout[k].out = Fmt(resp[i].stdout)
              /\ (stdout[k].prefix = "") = (resp[i].stdout = JStr(Str(i)))

\* two requests ran side by side, the later index was answered first and
\* the text of the earlier came before the newline of the later, on the same
\* line of output; each was compared with its own expected value
C12_Witness ==
    /\ Stress /\ Len(stdout) = 4
    /\ stdout[1].request_num = 2 /\ stdout[2].request_num = 1
    /\ stdout[1].kind = "result" /\ stdout[1].expected = Str(2) /\ stdout[1].prefix = ""
    /\ stdout[2].kind = "result" /\ stdout[2].expected = Str(1) /\ stdout[2].prefix = "[!] "

\* C13: in every step each request stays where it is or moves Pending ->
\* Dispatched -> Completed, never back and never from Pending to Completed;
\* its result is written once, in the step that completes it, by the call
\* that ran it after it printed its line, and neither a later step of a
\* worker nor the collection of the results changes it, the order in which
\* the results were written, or what is already printed.
C13_WriteOnceOutcome ==
    [][Stress => \A i \in Reqs :
         /\ Pending(i) => (Pending(i)' \/ Dispatched(i)')
         /\ Dispatched(i) => (Dispatched(i)' \/ Completed(i)')
         /\ Completed(i) => Completed(i)'
         /\ Completed(i) = (result[i] # None)
         /\ result[i] # None => result'[i] = result[i]
         /\ result'[i] # result[i] => (rpc[i] = "printed" /\ Completed(i)')
         /\ \A k \in DOMAIN stdout : k \in DOMAIN stdout' /\ stdout'[k] = stdout[k]
         /\ \A k \in DOMAIN completed : k \in DOMAIN completed' /\ completed'[k] = completed[k]
         /\ elapsed_times' # elapsed_times => elapsed_times'[i] = result[i]
      ]_vars

\* one request is Completed with its result while another is Dispatched and
\* time has passed since the result was written
C13_Witness ==
    /\ Stress
    /\ \E i, j \in Reqs : /\ Completed(i) /\ result[i] # None /\ result[i] < now
                          /\ Dispatched(j)

\* C14 (as stated): the collection the summary is computed from is in
\* completion order: if a completed before b, a's outcome comes before b's,
\* entry k being the outcome of the k-th request to complete.
C14_Original ==
    Finished => \A k \in 1..num : elapsed_times[k] = result[completed[k]]

\* C14 (amended): the collection the summary is computed from is in the
\* order of submission: entry k of elapsed_times is the result of request
\* k, the duration shown with two decimals in its text, in whatever order
\* the requests completed.
C14_IndexOrderCollection ==
    Finished =>
      /\ futures = [k \in 1..num |-> k]
      /\ \A k \in Reqs : /\ elapsed_times[k] = result[k]
                         /\ LineOf(k).time = Round2(elapsed_times[k], 1, lean[k])

\* request 2 completed before request 1 and took a different time
C14_Witness ==
    /\ Finished /\ num >= 2
    /\ completed = <<2, 1>>
    /\ LineOf(1).time # LineOf(2).time
    /\ elapsed_times[1] # elapsed_times[2]
    /\ LineOf(1).time = Round2(elapsed_times[1], 1, lean[1])

\* C15 (as stated): in the collection of outcomes a failed request can be
\* told from a successful one, also when both took the same time.
C15_Original ==
    Finished => \A i, j \in Reqs : (Failed(i) /\ ~Failed(j)) => elapsed_times[i] # elapsed_times[j]

\* the comparison of lines 35-38 found request i's stdout to match
Match(i) == LineOf(i).kind = "result" /\ LineOf(i).prefix = ""

\* C16 (as stated): the comparison reports a match exactly when the text of
\* the observed stdout equals the text of the expected value, both turned
\* into strings.
C16_Original ==
    Stress => \A i \in Reqs : (Completed(i) /\ LineOf(i).kind = "result") =>
      (Match(i) = (Fmt(resp[i].stdout) = Str(args[i].msg)))

\* C16 (amended): the comparison reports a match exactly when the observed
\* stdout is itself a string with the characters of str(expected); only the
\* expected value is turned into a string, so a stdout that is the number
\* itself is a mismatch although it prints the same.
C16_MatchIffStringEqualsStrExpected ==
    Stress => \A i \in Reqs : (Completed(i) /\ LineOf(i).kind = "result") =>
      /\ Match(i) = (resp[i].stdout.t = "str" /\ resp[i].stdout.s = Str(args[i].msg))
      /\ resp[i].stdout.t = "int" => (~Match(i) /\ LineOf(i).prefix = "[!] ")

\* a stdout that is the number i was compared with str(i) and marked, though
\* the line shows the same text for both
C16_Witness ==
    /\ Stress
    /\ \E i \in Reqs : /\ Completed(i) /\ resp[i].stdout = JInt(i)
                       /\ LineOf(i).kind = "result" /\ LineOf(i).prefix = "[!] "
                       /\ LineOf(i).out = LineOf(i).expected

\* some call will never return
AnyHung == \E i \in Reqs : rpc[i] = "hung"

\* C17: with threads scheduled fairly, a stress run leads to the printed
\* summary with every request Completed, or to a call that never returns;
\* once a call never returns this stays so, its worker stays in the call, and
\* no summary is ever printed.
C17_TerminatesUnlessACallHangs ==
    /\ Stress ~> ((Finished /\ summary # <<>> /\ AllDone) \/ AnyHung)
    /\ [](AnyHung => (summary = <<>> /\ main_pc # "done"))
    /\ [][\A i \in Reqs : rpc[i] = "hung" => rpc'[i] = "hung"]_vars

\* every other request is Completed, one call never returns, and the main
\* thread is held at the join
C17_Witness ==
    /\ Stress /\ num >= 2 /\ main_pc = "wait"
    /\ \E i \in Reqs : /\ rpc[i] = "hung"
                       /\ \A j \in Reqs \ {i} : Completed(j)
    /\ ~ENABLED Progress

\* the text request i prints, given only its response and its duration (a
\* float of t thousandths on the side l)
LineFor(i, r, t, l) ==
    IF Raised(r) = "" THEN ResultLine(i, i, r, t, l) ELSE ErrorLine(i, Raised(r), t, l)

\* What the inputs of a run make of it.  The inputs are the number of
\* requests n and, for each request index, the response r[i] and the duration
\* (the float of d[i] thousandths on the side e[i], the mean of several on
\* the side side); the number of threads and the order of completion are not
\* among the arguments.
\* the texts printed
OutcomesFor(n, r, d, e) == {LineFor(i, r[i], d[i], e[i]) : i \in 1..n}
\* the mean shown
MeanFor(n, d, e, side) == Round2(SumOver(d, 1..n), n, IF n = 1 THEN e[1] ELSE side)
\* the times shown for the durations, and the least and the greatest of them
ShownFor(n, d, e) == {Round2(d[i], 1, e[i]) : i \in 1..n}
MinFor(n, d, e) == CHOOSE m \in ShownFor(n, d, e) : \A x \in ShownFor(n, d, e) : m <= x
MaxFor(n, d, e) == CHOOSE m \in ShownFor(n, d, e) : \A x \in ShownFor(n, d, e) : x <= m

\* C18: when a run ends, the set of its outcomes (the texts printed and the
\* durations collected, by index) and the mean, min and max of its summary
\* are the values of OutcomesFor, MeanFor, MinFor and MaxFor at the run's
\* inputs, each a single value for given inputs.  Every run with ts >= 1
\* threads and every order of completion is covered, so two runs with the
\* same num and the same response and duration for each index end with the
\* same outcomes and the same mean, min and max.
C18_OutcomesDependOnlyOnPerIndexInputs ==
    Finished =>
      /\ {stdout[k] : k \in Texts} = OutcomesFor(num, resp, result, lean)
      /\ elapsed_times = [i \in 1..num |-> result[i]]
      /\ summary[1].mean_time = MeanFor(num, result, lean, mean_lean)
      /\ summary[1].min_time = MinFor(num, result, lean)
      /\ summary[1].max_time = MaxFor(num, result, lean)

\* a run on two threads ended in which the requests completed against their
\* index order
C18_Witness ==
    /\ Finished /\ num >= 2 /\ nthreads >= 2
    /\ completed[1] > completed[2]
    /\ result[1] # result[2]

\* the template has the marker %s
HasMarker(t) == Find(t) >= 0
\* the template's text before its first marker and after it
BeforeMarker(t) == SubSeq(t, 1, Find(t))
AfterMarker(t) == SubSeq(t, Find(t) + 3, Len(t))
Generated == prog = "build_env" /\ main_pc = "done"

\* C19 (as stated): the output is the template's text before the marker, the
\* names of nix_pkgs of all .yaml files each on a line of its own, and the
\* template's text after the marker; without a marker nothing is put in
\* place of one and the template's text is kept whole (with the names after
\* it, or without them).
C19_Original ==
    Generated =>
      LET names == JoinStr(Separator, NixPkgsList(runtime_dir)) IN
        IF HasMarker(template)
        THEN output = BeforeMarker(template) \o names \o AfterMarker(template)
        ELSE output = template \/ output = template \o names

====
